---- MODULE Spec2Model ----
(***************************************************************************)
(* Model of app.py: the /insert handler of hasuragres.  One process-wide   *)
(* psycopg2 connection and one cursor are shared by every request; a       *)
(* request looks its table up in the registry table Tables, creates or     *)
(* re-creates the table, replaces its rows, commits, and then sends the    *)
(* Hasura metadata calls.                                                  *)
(*                                                                         *)
(* Each action is one call on the shared cursor / connection or one HTTP   *)
(* call: these are the points at which two handler threads can interleave. *)
(* The fields of the request body are immutable inputs; each is drawn no   *)
(* later than the step that first reads it, and sql_down only on the paths *)
(* that read it (it stays NoStmt when create_table finds nothing to do).   *)
(***************************************************************************)
EXTENDS Naturals, Sequences, FiniteSets, TLC

(* ------------------------------ bounds --------------------------------- *)

\* Requests accepted in one run, served one at a time.
MaxRequests == 3

\* Requests accepted in one run of the thread pool.
MaxConcRequests == 2

\* Length of the names plural and singular are applied to.
MaxLen == 3

\* Calls of plural and singular applied to one name in a row.
MaxCalls == 3

\* Suggestions in one answer given to infer_relationships.
MaxRels == 3

(* ------------------------------ inputs --------------------------------- *)

\* Handler threads of the server (FastAPI runs a def endpoint in a thread pool).
Threads == {1, 2}

\* Names are sequences of characters.
NameT == <<"T">>

Namet == <<"t">>

Nameu == <<"u">>

Names == {NameT, Namet, Nameu}

\* str.lower on one character.
LowerChar(c) ==
    CASE c = "T" -> "t"
      [] c = "U" -> "u"
      [] OTHER -> c

\* Faulty variant of Lower: the name is looked up as it was given.
Lower_KeepsCase(s) == s

\* str.lower (line 59).
Lower(s) == [i \in 1..Len(s) |-> LowerChar(s[i])]

\* Identifiers of the tables the statements can name.
Ids == {Lower(n) : n \in Names}

\* SQL statement texts.  v distinguishes texts with the same effect.
NoStmt == [op |-> "none", tbl |-> <<>>, cols |-> {}, v |-> 0]

BadStmt == [op |-> "bad", tbl |-> <<>>, cols |-> {}, v |-> 0]

CreateStmt(tbl, cols) == [op |-> "create", tbl |-> tbl, cols |-> cols, v |-> 0]

DropStmt(tbl, v) == [op |-> "drop", tbl |-> tbl, cols |-> {}, v |-> v]

TruncateStmt(tbl) == [op |-> "truncate", tbl |-> tbl, cols |-> {}, v |-> 0]

\* Values of Metadata.sql_up (line 15).
UpStmts ==
    {CreateStmt(Namet, {"a"}), CreateStmt(Namet, {"a", "b"}),
     CreateStmt(Nameu, {"a"}), BadStmt}

\* Values of Metadata.sql_down (line 16).
DownStmts == {DropStmt(Namet, 1), DropStmt(Namet, 2), DropStmt(Nameu, 1)}

\* Values of Metadata.columns (line 17).
ColumnLists == {<<"a">>, <<"a", "b">>}

\* Rows of a payload: mappings from column name to value.
Row1 == [c \in {"a"} |-> 1]

Row2 == [c \in {"a", "b"} |-> IF c = "a" THEN 2 ELSE 1]

\* Values of payload (line 157).
Payloads == {<<>>, <<Row2>>, <<Row1, Row2>>, <<Row2, Row1>>}

\* The SQL NULL stored in a column an INSERT does not name.
Null == 0

(* ----------------------------- database -------------------------------- *)

\* A row of Tables as SELECT up, down returns it; NoRow is fetchone's None.
NoRow == [found |-> FALSE, up |-> NoStmt, down |-> NoStmt]

RegRow(up, down) == [found |-> TRUE, up |-> up, down |-> down]

NoTable == [exists |-> FALSE, cols |-> {}, rows |-> <<>>]

\* The state of the database: the registry table Tables and the user tables.
EmptyDb == [reg |-> [i \in Ids |-> NoRow], tabs |-> [i \in Ids |-> NoTable]]

\* Whether PostgreSQL accepts the statement in state st.
StmtOk(stmt, st) ==
    CASE stmt.op = "create" -> ~st.tabs[stmt.tbl].exists
      [] stmt.op = "drop" -> st.tabs[stmt.tbl].exists
      [] stmt.op = "truncate" -> stmt.tbl \in Ids /\ st.tabs[stmt.tbl].exists
      [] OTHER -> FALSE

\* The state after an accepted statement.
StmtApply(stmt, st) ==
    CASE stmt.op = "create" ->
           [st EXCEPT !.tabs[stmt.tbl] =
               [exists |-> TRUE, cols |-> stmt.cols, rows |-> <<>>]]
      [] stmt.op = "drop" -> [st EXCEPT !.tabs[stmt.tbl] = NoTable]
      [] stmt.op = "truncate" -> [st EXCEPT !.tabs[stmt.tbl].rows = <<>>]
      [] OTHER -> st

Range(s) == {s[i] : i \in 1..Len(s)}

\* The row INSERT INTO tbl(columns) VALUES (vals) stores.
StoredRow(tcols, columns, vals) ==
    [c \in tcols |->
        IF c \in Range(columns)
        THEN vals[CHOOSE i \in 1..Len(columns) : columns[i] = c]
        ELSE Null]

(* -------------------------- naming helpers ------------------------------ *)

EndsWithS(s) == Len(s) > 0 /\ s[Len(s)] = "s"

\* plural (lines 98-99).
plural(s) == IF EndsWithS(s) THEN s ELSE Append(s, "s")

\* Faulty variant of singular: a name ending in "s" loses its last two characters.
singular_StripsTwo(s) ==
    IF ~EndsWithS(s) THEN s
    ELSE IF Len(s) < 2 THEN <<>>
    ELSE SubSeq(s, 1, Len(s) - 2)

\* singular (lines 102-103).
singular(s) == IF ~EndsWithS(s) THEN s ELSE SubSeq(s, 1, Len(s) - 1)

\* A relationship suggestion of pg_suggest_relationships.
Rel(type, ft, tt) ==
    [type |-> type,
     from |-> [table |-> ft, columns |-> <<"a">>],
     to |-> [table |-> tt, columns |-> <<"b">>]]

\* The suggestion lists the metadata system answers a request's query with.
Suggestions ==
    {<<>>, <<Rel("object", Namet, <<"u", "s">>), Rel("other", Namet, Namet), Rel("array", Namet, Nameu)>>}

\* The request bodies of the runs that serve one request at a time.
Inputs ==
    [sql_up |-> UpStmts, sql_down |-> DownStmts, columns |-> ColumnLists,
     payload |-> Payloads, relationships |-> Suggestions]

\* The request bodies of the runs in which two handlers interleave.
ConcInputs ==
    [sql_up |-> {CreateStmt(Namet, {"a"}), CreateStmt(Nameu, {"a"})},
     sql_down |-> {DropStmt(Namet, 1)},
     columns |-> {<<"a">>},
     payload |-> {<<>>, <<Row2>>},
     relationships |-> {<<>>}]

\* Faulty variant of rel_queries: an array relationship is named after the table of the
\* suggestion's from side.
rel_queries_NamesFrom(rel) ==
    CASE rel.type = "object" ->
           <<[type |-> "pg_create_object_relationship",
              table |-> rel.from.table,
              name |-> singular(rel.to.table),
              using |-> [table |-> <<>>, columns |-> rel.from.columns]]>>
      [] rel.type = "array" ->
           <<[type |-> "pg_create_array_relationship",
              table |-> rel.from.table,
              name |-> plural(rel.from.table),
              using |-> [table |-> rel.to.table, columns |-> rel.to.columns]]>>
      [] OTHER -> <<>>

\* The query the loop body appends for one suggestion (lines 125-151);
\* <<>> when it appends nothing.
rel_queries(rel) ==
    CASE rel.type = "object" ->
           <<[type |-> "pg_create_object_relationship",
              table |-> rel.from.table,
              name |-> singular(rel.to.table),
              using |-> [table |-> <<>>, columns |-> rel.from.columns]]>>
      [] rel.type = "array" ->
           <<[type |-> "pg_create_array_relationship",
              table |-> rel.from.table,
              name |-> plural(rel.to.table),
              using |-> [table |-> rel.to.table, columns |-> rel.to.columns]]>>
      [] OTHER -> <<>>

\* The loop of infer_relationships over the suggestions (lines 123-153).
RECURSIVE infer_relationships(_)
infer_relationships(rels) ==
    IF rels = <<>> THEN <<>>
    ELSE rel_queries(Head(rels)) \o infer_relationships(Tail(rels))

(* ------------------------------- state --------------------------------- *)

VARIABLES
    database,     \* the committed state of the PostgreSQL database
    connection,   \* the shared connection: its open transaction's view, and whether it is aborted
    cursor,       \* the shared cursor: the result set of its last execute
    rq,           \* per handler thread: the locals of insert / create_table
    nreq,         \* requests accepted so far
    prev,         \* the response of the request that returned last, and its body if it succeeded
    installed,    \* per table: sql_up and sql_down of the last request that created it and committed
    naming,       \* calls of plural / singular in a row: the functions called, the argument and each result
    inference     \* one call of infer_relationships: the answer, the position of its loop, its queries

vars == <<database, connection, cursor, rq, nreq, prev, installed, naming, inference>>

\* A cursor whose last statement returned no rows to fetch.
NoResult == [has |-> FALSE, rows |-> <<>>]

IdleReq ==
    [pc |-> "idle", table_name |-> <<>>, sql_up |-> NoStmt, sql_down |-> NoStmt,
     columns |-> <<>>, payload |-> <<>>, table_sql |-> NoRow, created |-> FALSE,
     response |-> "none", queries |-> <<>>, sent |-> <<>>, ddl |-> <<>>, ends |-> <<>>,
     before |-> EmptyDb]

NoPrev ==
    [valid |-> FALSE, table_name |-> <<>>, sql_up |-> NoStmt, sql_down |-> NoStmt,
     columns |-> <<>>, payload |-> <<>>, response |-> "none"]

\* No call of plural or singular under study.
NoNaming == [calls |-> <<>>, vals |-> <<>>]

\* No call of infer_relationships under study.
NoInference == [rels |-> <<>>, i |-> 0, queries |-> <<>>, returned |-> FALSE]

\* Module start-up (lines 20-29): one connection, one cursor, no transaction yet.
StartUp ==
    /\ database = EmptyDb
    /\ connection = [txn |-> EmptyDb, failed |-> FALSE]
    /\ cursor = NoResult
    /\ rq = [t \in Threads |-> IdleReq]
    /\ nreq = 0
    /\ prev = NoPrev
    /\ installed = [i \in Ids |-> NoRow]

\* The server after start-up.
Init ==
    /\ StartUp
    /\ naming = NoNaming
    /\ inference = NoInference

(* ----------------------- connection and cursor ------------------------- *)

\* Whether cursor.execute(stmt) succeeds: not in an aborted transaction, and
\* the statement is accepted.
ExecOk(conn, stmt) == ~conn.failed /\ StmtOk(stmt, conn.txn)

\* cursor.execute(stmt) on the shared connection; a failing statement aborts
\* the open transaction.
Execute(conn, stmt) ==
    IF ExecOk(conn, stmt)
    THEN [txn |-> StmtApply(stmt, conn.txn), failed |-> FALSE]
    ELSE [txn |-> conn.txn, failed |-> TRUE]

\* Faulty variant of Rollback: the handler clears the error but keeps the statements
\* of the open transaction.
Rollback_KeepsTxn(conn, db) == [conn EXCEPT !.failed = FALSE]

\* Faulty variant of Rollback: the handler returns its error without rolling back.
Rollback_Missing(conn, db) == conn

\* connection.rollback() (lines 162, 177): the open transaction is discarded.
Rollback(conn, db) == [txn |-> db, failed |-> FALSE]

\* What connection.commit() (line 180) makes durable: the open transaction,
\* or nothing when it is aborted (PostgreSQL answers COMMIT with ROLLBACK).
Committed(conn, db) == IF conn.failed THEN db ELSE conn.txn

\* SELECT up, down FROM Tables WHERE table_name = %s (lines 58, 60).
SelectRows(conn, id) ==
    IF conn.txn.reg[id].found THEN <<conn.txn.reg[id]>> ELSE <<>>

\* Tables holds one row per table_name: a second INSERT for a name is refused.
UniqueViolation(conn, id) == conn.txn.reg[id].found

\* Faulty variant of Decision: line 71 compares the stored down statement with sql_up.
Decision_ComparesDown(table_sql, sql_up) ==
    IF ~table_sql.found THEN "Create"
    ELSE IF table_sql.down # sql_up THEN "Recreate"
    ELSE "Unchanged"

\* Faulty variant of Decision: any record found leads to a re-creation.
Decision_AlwaysRecreates(table_sql, sql_up) ==
    IF ~table_sql.found THEN "Create" ELSE "Recreate"

\* The branch create_table takes (lines 62, 71, 82).
Decision(table_sql, sql_up) ==
    IF ~table_sql.found THEN "Create"
    ELSE IF table_sql.up # sql_up THEN "Recreate"
    ELSE "Unchanged"

\* Faulty variant of Teardown: line 73 executes the request's own sql_down.
Teardown_Own(table_sql, sql_down) == sql_down

\* The teardown statement of a re-creation (line 73): the stored one.
Teardown(table_sql, sql_down) == table_sql.down

(* ------------------------------ requests ------------------------------- *)

Set(t, r) == rq' = [rq EXCEPT ![t] = r]

\* insert is entered with a parsed request body (line 157).
Enter(t) ==
    /\ rq[t].pc = "idle"
    /\ \E n \in Names :
         Set(t, [IdleReq EXCEPT !.pc = "select", !.table_name = n, !.before = database])
    /\ UNCHANGED <<database, connection, cursor, prev, installed, naming, inference>>

\* A free thread of the pool accepts a request.
Start(t) ==
    /\ nreq < MaxConcRequests
    /\ Enter(t)
    /\ nreq' = nreq + 1

\* Requests one at a time: a request is accepted when no other is in progress.
SeqStart(t) ==
    /\ \A u \in Threads : rq[u].pc = "idle" /\ t <= u
    /\ nreq < MaxRequests
    /\ Enter(t)
    /\ nreq' = nreq + 1

\* create_table, lines 58-60: lower the name, execute the SELECT.
create_table_select(t) ==
    /\ rq[t].pc = "select"
    /\ LET id == Lower(rq[t].table_name)
           r == [rq[t] EXCEPT !.table_name = id]
       IN IF connection.failed
          THEN /\ cursor' = NoResult
               /\ Set(t, [r EXCEPT !.pc = "except_create"])
          ELSE /\ cursor' = [has |-> TRUE, rows |-> SelectRows(connection, id)]
               /\ Set(t, [r EXCEPT !.pc = "fetch"])
    /\ UNCHANGED <<database, connection, nreq, prev, installed, naming, inference>>

\* create_table, lines 61-62, 71, 82: fetchone and the choice of the branch.
create_table_fetch(t, inp) ==
    /\ rq[t].pc = "fetch"
    /\ IF ~cursor.has
       THEN /\ Set(t, [rq[t] EXCEPT !.pc = "except_create"])
            /\ UNCHANGED cursor
       ELSE \E up \in inp.sql_up, down \in inp.sql_down \cup {NoStmt} :
              LET row == IF cursor.rows = <<>> THEN NoRow ELSE Head(cursor.rows)
                  d == Decision(row, up)
                  r == [rq[t] EXCEPT !.table_sql = row, !.sql_up = up, !.sql_down = down]
              IN /\ (down = NoStmt) <=> (d = "Unchanged")
                 /\ cursor' = [cursor EXCEPT !.rows = IF @ = <<>> THEN <<>> ELSE Tail(@)]
                 /\ Set(t, [r EXCEPT !.pc = CASE d = "Create" -> "up"
                                               [] d = "Recreate" -> "down"
                                               [] OTHER -> "truncate"])
    /\ UNCHANGED <<database, connection, nreq, prev, installed, naming, inference>>

\* create_table, line 73: execute the teardown statement.
create_table_down(t) ==
    /\ rq[t].pc = "down"
    /\ LET stmt == Teardown(rq[t].table_sql, rq[t].sql_down)
           r == [rq[t] EXCEPT !.ddl = Append(@, stmt)]
       IN /\ connection' = Execute(connection, stmt)
          /\ Set(t, [r EXCEPT !.pc = IF ExecOk(connection, stmt) THEN "up" ELSE "except_create"])
    /\ cursor' = NoResult
    /\ UNCHANGED <<database, nreq, prev, installed, naming, inference>>

\* create_table, lines 64 and 74: execute sql_up.
create_table_up(t) ==
    /\ rq[t].pc = "up"
    /\ LET stmt == rq[t].sql_up
           r == [rq[t] EXCEPT !.ddl = Append(@, stmt)]
       IN /\ connection' = Execute(connection, stmt)
          /\ Set(t, [r EXCEPT !.pc = IF ExecOk(connection, stmt) THEN "store" ELSE "except_create"])
    /\ cursor' = NoResult
    /\ UNCHANGED <<database, nreq, prev, installed, naming, inference>>

\* Faulty variant of Stored: the re-creation branch does not update the registry.
Stored_InsertOnly(conn, table_sql, id, up, down) ==
    IF ~table_sql.found
    THEN [conn EXCEPT !.txn.reg[id] = RegRow(up, down)]
    ELSE conn

\* Faulty variant of Stored: a re-creation removes the record of the table.
Stored_DeletesOnRecreate(conn, table_sql, id, up, down) ==
    IF ~table_sql.found
    THEN [conn EXCEPT !.txn.reg[id] = RegRow(up, down)]
    ELSE [conn EXCEPT !.txn.reg[id] = NoRow]

\* Faulty variant of Stored: the UPDATE of a re-creation stores the new down statement
\* and keeps the old up statement.
Stored_KeepsUp(conn, table_sql, id, up, down) ==
    IF ~table_sql.found
    THEN [conn EXCEPT !.txn.reg[id] = RegRow(up, down)]
    ELSE [conn EXCEPT !.txn.reg[id] = RegRow(table_sql.up, down)]

\* The registry after INSERT INTO Tables (lines 67-68) or UPDATE Tables
\* (lines 77-78); the UPDATE changes the row if there is one.
Stored(conn, table_sql, id, up, down) ==
    IF ~table_sql.found \/ conn.txn.reg[id].found
    THEN [conn EXCEPT !.txn.reg[id] = RegRow(up, down)]
    ELSE conn

\* create_table, lines 67-70 and 77-80: store the metadata, return True.
create_table_store(t) ==
    /\ rq[t].pc = "store"
    /\ LET r == rq[t]
           ok == /\ ~connection.failed
                 /\ r.table_sql.found \/ ~UniqueViolation(connection, r.table_name)
       IN IF ok
          THEN /\ connection' = Stored(connection, r.table_sql, r.table_name, r.sql_up, r.sql_down)
               /\ Set(t, [r EXCEPT !.created = TRUE, !.pc = "truncate"])
          ELSE /\ connection' = [connection EXCEPT !.failed = TRUE]
               /\ Set(t, [r EXCEPT !.pc = "except_create"])
    /\ cursor' = NoResult
    /\ UNCHANGED <<database, nreq, prev, installed, naming, inference>>

\* insert, lines 160-163: create_table raised.
except_create(t) ==
    /\ rq[t].pc = "except_create"
    /\ connection' = Rollback(connection, database)
    /\ Set(t, [rq[t] EXCEPT !.ends = Append(@, "rollback"), !.response = "error", !.pc = "done"])
    /\ UNCHANGED <<database, cursor, nreq, prev, installed, naming, inference>>

\* insert, lines 167-168: TRUNCATE table_name CASCADE.
insert_truncate(t) ==
    /\ rq[t].pc = "truncate"
    /\ LET stmt == TruncateStmt(rq[t].table_name)
       IN /\ connection' = Execute(connection, stmt)
          /\ Set(t, [rq[t] EXCEPT !.pc = IF ExecOk(connection, stmt) THEN "insert" ELSE "except_insert"])
    /\ cursor' = NoResult
    /\ UNCHANGED <<database, nreq, prev, installed, naming, inference>>

\* Faulty variant of Values: the tuples are built from the last row to the first.
Values_Reversed(columns, payload) ==
    [i \in 1..Len(payload) |->
        [j \in 1..Len(columns) |-> payload[Len(payload) + 1 - i][columns[j]]]]

\* values of line 171: one tuple per row, in the order of the payload.
Values(columns, payload) ==
    [i \in 1..Len(payload) |-> [j \in 1..Len(columns) |-> payload[i][columns[j]]]]

\* Line 171 raises KeyError when a row lacks a declared column.
KeyError(columns, payload) ==
    \E i \in 1..Len(payload) : \E j \in 1..Len(columns) : columns[j] \notin DOMAIN payload[i]

\* Whether executemany (line 174) succeeds; it executes nothing for no rows.
InsertOk(conn, id, columns, values) ==
    \/ values = <<>>
    \/ /\ ~conn.failed
       /\ conn.txn.tabs[id].exists
       /\ Range(columns) \subseteq conn.txn.tabs[id].cols

\* The connection after executemany (lines 173-174).
Inserted(conn, id, columns, values) ==
    IF InsertOk(conn, id, columns, values)
    THEN [conn EXCEPT !.txn.tabs[id].rows =
            @ \o [i \in 1..Len(values) |-> StoredRow(conn.txn.tabs[id].cols, columns, values[i])]]
    ELSE [conn EXCEPT !.failed = TRUE]

\* insert, lines 171-174: build the values and insert them.
insert_rows(t, inp) ==
    /\ rq[t].pc = "insert"
    /\ \E columns \in inp.columns, payload \in inp.payload :
         LET r == [rq[t] EXCEPT !.columns = columns, !.payload = payload]
             id == r.table_name
         IN IF KeyError(columns, payload)
            THEN /\ Set(t, [r EXCEPT !.pc = "except_insert"])
                 /\ UNCHANGED <<connection, cursor>>
            ELSE LET values == Values(columns, payload)
                 IN /\ connection' = Inserted(connection, id, columns, values)
                    /\ cursor' = IF values = <<>> THEN cursor ELSE NoResult
                    /\ Set(t, [r EXCEPT !.pc = IF InsertOk(connection, id, columns, values)
                                               THEN "commit" ELSE "except_insert"])
    /\ UNCHANGED <<database, nreq, prev, installed, naming, inference>>

\* insert, lines 175-178: the truncate or the insert raised.
except_insert(t) ==
    /\ rq[t].pc = "except_insert"
    /\ connection' = Rollback(connection, database)
    /\ Set(t, [rq[t] EXCEPT !.ends = Append(@, "rollback"), !.response = "error", !.pc = "done"])
    /\ UNCHANGED <<database, cursor, nreq, prev, installed, naming, inference>>

(* ---------------------- commit and metadata sync ----------------------- *)

\* Faulty variant of AfterCommit: the Hasura calls run whether or not a table was created.
AfterCommit_Always(ok, created) == IF ~ok THEN "done" ELSE "track"

\* Faulty variant of AfterCommit: an exception of commit is swallowed.
AfterCommit_IgnoresFailure(ok, created) == IF created THEN "track" ELSE "done"

\* Where insert continues after connection.commit() (lines 180-183, 215):
\* an exception of commit leaves the handler, a created table goes on to
\* the Hasura calls, anything else returns success.
AfterCommit(ok, created) ==
    IF ~ok THEN "done"
    ELSE IF created THEN "track"
    ELSE "done"

\* insert, line 180: connection.commit().  The call may raise (the server
\* refuses the commit or is gone); nothing catches it and the transaction is lost.
insert_commit(t) ==
    /\ rq[t].pc = "commit"
    /\ \E ok \in BOOLEAN :
         LET next == AfterCommit(ok, rq[t].created)
             id == rq[t].table_name
         IN /\ database' = IF ok THEN Committed(connection, database) ELSE database
            /\ connection' = [txn |-> database', failed |-> FALSE]
            /\ installed' = IF ok /\ rq[t].created
                            THEN [installed EXCEPT ![id] = RegRow(rq[t].sql_up, rq[t].sql_down)]
                            ELSE installed
            /\ Set(t, [rq[t] EXCEPT
                   !.ends = Append(@, IF ok THEN "commit" ELSE "commit_raised"),
                   !.before = IF ok THEN EmptyDb ELSE @,
                   !.response = IF next = "done"
                                THEN (IF ok THEN "success" ELSE "exception")
                                ELSE @,
                   !.pc = next])
    /\ UNCHANGED <<cursor, nreq, prev, naming, inference>>

\* What requests.post (lines 86-92) can do: answer 200, answer with an error
\* body, or raise (the engine is unreachable).
HasuraOutcomes == {"ok", "error", "raise"}

\* The record of one send_hasura_api_query call (lines 85-92): the query,
\* and whether requests.post raised.  The callers at lines 185, 195 and 210
\* drop the response, so an error answer leaves no other trace.
send_hasura_api_query(r, type, name, args, out) ==
    [r EXCEPT !.sent = Append(@, [type |-> type, name |-> name, args |-> args,
                                  raised |-> (out = "raise")])]

\* Faulty variant of AfterCall: the handler goes from the track-table call straight to
\* the suggestion query.
AfterCall_SkipsGrant(out, next) ==
    IF out = "raise" THEN "done" ELSE IF next = "grant" THEN "suggest" ELSE next

\* Where insert continues after a call: an exception of requests.post leaves
\* the handler (no try around lines 183-213).
AfterCall(out, next) == IF out = "raise" THEN "done" ELSE next

\* insert, lines 185-192: pg_track_table.
insert_track(t) ==
    /\ rq[t].pc = "track"
    /\ \E out \in HasuraOutcomes :
         LET r == send_hasura_api_query(rq[t], "pg_track_table", Lower(rq[t].table_name), <<>>, out)
         IN Set(t, [r EXCEPT !.pc = AfterCall(out, "grant"),
                             !.response = IF out = "raise" THEN "exception" ELSE @])
    /\ UNCHANGED <<database, connection, cursor, nreq, prev, installed, naming, inference>>

\* insert, lines 195-207: pg_create_select_permission for role anonymous.
insert_grant(t) ==
    /\ rq[t].pc = "grant"
    /\ \E out \in HasuraOutcomes :
         LET r == send_hasura_api_query(rq[t], "pg_create_select_permission", Lower(rq[t].table_name), <<>>, out)
         IN Set(t, [r EXCEPT !.pc = AfterCall(out, "suggest"),
                             !.response = IF out = "raise" THEN "exception" ELSE @])
    /\ UNCHANGED <<database, connection, cursor, nreq, prev, installed, naming, inference>>

\* infer_relationships, lines 114-153, called at line 212: the suggestion
\* query; an error body has no "relationships" key and line 124 raises KeyError.
insert_suggest(t, inp) ==
    /\ rq[t].pc = "suggest"
    /\ \E out \in HasuraOutcomes :
         LET r == send_hasura_api_query(rq[t], "pg_suggest_relationships", Lower(rq[t].table_name), <<>>, out)
         IN IF out = "ok"
            THEN \E rels \in inp.relationships :
                   Set(t, [r EXCEPT !.pc = "bulk", !.queries = infer_relationships(rels)])
            ELSE Set(t, [r EXCEPT !.pc = "done", !.response = "exception"])
    /\ UNCHANGED <<database, connection, cursor, nreq, prev, installed, naming, inference>>

\* insert, lines 210-215: the bulk call, then the success response.
insert_bulk(t) ==
    /\ rq[t].pc = "bulk"
    /\ \E out \in HasuraOutcomes :
         LET r == send_hasura_api_query(rq[t], "bulk", <<>>, rq[t].queries, out)
         IN Set(t, [r EXCEPT !.pc = "done", !.queries = <<>>,
                             !.response = IF out = "raise" THEN "exception" ELSE "success"])
    /\ UNCHANGED <<database, connection, cursor, nreq, prev, installed, naming, inference>>

\* The handler has returned its response (lines 163, 178, 215) or left by an
\* exception; the thread is free for the next request.
Return(t) ==
    /\ rq[t].pc = "done"
    /\ prev' = IF rq[t].response = "success"
                THEN [valid |-> TRUE, table_name |-> rq[t].table_name, sql_up |-> rq[t].sql_up,
                      sql_down |-> rq[t].sql_down, columns |-> rq[t].columns,
                      payload |-> rq[t].payload, response |-> "success"]
                ELSE [NoPrev EXCEPT !.response = rq[t].response]
    /\ Set(t, IdleReq)
    /\ UNCHANGED <<database, connection, cursor, nreq, installed, naming, inference>>

\* One step of the handler running in thread t, on a request whose fields
\* come from the sets of inp.
Step(t, inp) ==
    \/ create_table_select(t)
    \/ create_table_fetch(t, inp)
    \/ create_table_down(t)
    \/ create_table_up(t)
    \/ create_table_store(t)
    \/ except_create(t)
    \/ insert_truncate(t)
    \/ insert_rows(t, inp)
    \/ except_insert(t)
    \/ insert_commit(t)
    \/ insert_track(t)
    \/ insert_grant(t)
    \/ insert_suggest(t, inp)
    \/ insert_bulk(t)
    \/ Return(t)

\* Requests served one at a time.
Next == \E t \in Threads : SeqStart(t) \/ Step(t, Inputs)

Spec == Init /\ [][Next]_vars

\* Requests served by the thread pool: the steps of two handlers interleave.
NextConc == \E t \in Threads : Start(t) \/ Step(t, ConcInputs)

SpecConc == Init /\ [][NextConc]_vars

(* -------------------- plural and singular on their own ------------------ *)

\* The characters of the names given to plural and singular.
NameChars == {"a", "s"}

\* The names given to plural and singular.
NameStrings == UNION {[1..n -> NameChars] : n \in 0..MaxLen}

\* The handler's state: no request is served while a function is studied.
handler == <<database, connection, cursor, rq, nreq, prev, installed>>

\* A name is chosen; nothing has been applied to it.
InitNaming ==
    /\ StartUp
    /\ naming \in {[calls |-> <<>>, vals |-> <<x>>] : x \in NameStrings}
    /\ inference = NoInference

\* plural (lines 98-99) applied to the last result.
call_plural ==
    /\ Len(naming.calls) < MaxCalls
    /\ naming' = [calls |-> Append(naming.calls, "plural"),
                  vals |-> Append(naming.vals, plural(naming.vals[Len(naming.vals)]))]
    /\ UNCHANGED <<handler, inference>>

\* singular (lines 102-103) applied to the last result.
call_singular ==
    /\ Len(naming.calls) < MaxCalls
    /\ naming' = [calls |-> Append(naming.calls, "singular"),
                  vals |-> Append(naming.vals, singular(naming.vals[Len(naming.vals)]))]
    /\ UNCHANGED <<handler, inference>>

NextNaming == call_plural \/ call_singular

SpecNaming == InitNaming /\ [][NextNaming]_vars

(* -------------------- infer_relationships on its own -------------------- *)

\* Values of a suggestion's type.
RelTypes == {"object", "array", "other"}

\* Table names in the suggestions.
RelTables == {Namet, <<"u", "s">>}

\* The suggestions an answer can hold.
Rels == {Rel(type, ft, tt) : type \in RelTypes, ft \in RelTables, tt \in RelTables}

\* The answers of pg_suggest_relationships: res.json()["relationships"].
RelLists == UNION {[1..n -> Rels] : n \in 0..MaxRels}

\* infer_relationships has received an answer; queries = [] (line 123).
InitInfer ==
    /\ StartUp
    /\ naming = NoNaming
    /\ inference \in {[rels |-> rels, i |-> 1, queries |-> <<>>, returned |-> FALSE] :
                         rels \in RelLists}

\* One pass of the loop of lines 124-151 over the next suggestion.
infer_loop ==
    /\ ~inference.returned
    /\ inference.i <= Len(inference.rels)
    /\ inference' = [inference EXCEPT
                        !.queries = @ \o rel_queries(inference.rels[inference.i]),
                        !.i = @ + 1]
    /\ UNCHANGED <<handler, naming>>

\* The loop is over: return queries (line 153).
infer_return ==
    /\ ~inference.returned
    /\ inference.i > Len(inference.rels)
    /\ inference' = [inference EXCEPT !.returned = TRUE]
    /\ UNCHANGED <<handler, naming>>

NextInfer == infer_loop \/ infer_return

SpecInfer == InitInfer /\ [][NextInfer]_vars

(* ------------------------------- claims -------------------------------- *)

\* The handler is between its first statement and the end of its transaction.
PreCommit ==
    {"select", "fetch", "down", "up", "store", "truncate", "insert", "commit",
     "except_create", "except_insert"}

\* The handler has passed line 73 or skipped it, and its transaction is open.
AfterDown == {"up", "store", "truncate", "insert", "commit", "except_create", "except_insert"}

\* The types of the queries a request has sent, in order.
SentTypes(t) == [i \in 1..Len(rq[t].sent) |-> rq[t].sent[i].type]

\* C1: after a request has returned {status: success}, the registry record
\* under its lowercased table name exists and its up statement is the
\* request's sql_up.
C1_RegistryHoldsSqlUp ==
    \A t \in Threads :
        rq[t].pc = "done" /\ rq[t].response = "success"
        => /\ database.reg[Lower(rq[t].table_name)].found
           /\ database.reg[Lower(rq[t].table_name)].up = rq[t].sql_up

\* A request that replaced an existing record with a different sql_up has
\* returned success.
C1_Witness ==
    \E t \in Threads :
        /\ rq[t].pc = "done" /\ rq[t].response = "success"
        /\ rq[t].table_sql.found /\ rq[t].table_sql.up # rq[t].sql_up

\* C2 as claimed: metadata operations are sent only by a request that found
\* no registry record; a re-creating request sends none.
C2_OnlyNewTables ==
    \A t \in Threads : rq[t].sent # <<>> => ~rq[t].table_sql.found

\* C2 as amended: metadata operations are sent only by a request whose
\* create_table returned True, by creating or by re-creating the table; a
\* request that found the stored sql_up unchanged sends none, and one that
\* re-created its table and returned success has sent all four calls.
C2_CreatedTables ==
    \A t \in Threads :
        /\ rq[t].sent # <<>>
           => rq[t].created /\ Decision(rq[t].table_sql, rq[t].sql_up) # "Unchanged"
        /\ rq[t].pc = "done" /\ rq[t].response = "success" /\ rq[t].created
           => SentTypes(t) = <<"pg_track_table", "pg_create_select_permission",
                               "pg_suggest_relationships", "bulk">>

\* A re-creating request has sent its metadata operations and returned success.
C2_Witness ==
    \E t \in Threads :
        /\ rq[t].pc = "done" /\ rq[t].response = "success"
        /\ rq[t].table_sql.found /\ rq[t].created
        /\ Len(rq[t].sent) = 4

\* C3: until its commit a request leaves the committed state (registry,
\* tables, rows) as it found it, and when it returns {status: error} the
\* committed state is the one before the request and the connection holds
\* no statement of it.
C3_AllOrNothing ==
    \A t \in Threads :
        /\ rq[t].pc \in PreCommit => database = rq[t].before
        /\ rq[t].pc = "done" /\ rq[t].response = "error"
           => /\ database = rq[t].before
              /\ connection = [txn |-> rq[t].before, failed |-> FALSE]

\* A request that dropped and re-created its table and stored the new
\* record has failed at the insert and returned the error.
C3_Witness ==
    \E t \in Threads :
        /\ rq[t].pc = "done" /\ rq[t].response = "error"
        /\ rq[t].table_sql.found /\ rq[t].created
        /\ Len(rq[t].ddl) = 2 /\ rq[t].payload # <<>>

\* C4: a request that has sent a metadata operation has ended its
\* transaction by exactly one commit that succeeded (no rollback, no failed
\* commit), and nothing of it is left uncommitted on the connection.
C4_SyncAfterCommit ==
    \A t \in Threads :
        rq[t].sent # <<>>
        => /\ rq[t].ends = <<"commit">>
           /\ connection = [txn |-> database, failed |-> FALSE]

\* A request has just sent its first metadata operation.
C4_Witness ==
    \E t \in Threads :
        /\ Len(rq[t].sent) = 1 /\ rq[t].ends = <<"commit">>
        /\ database.tabs[rq[t].table_name].exists

\* C5: the first statement a re-creating request executes is the sql_down
\* that the last committed creation or re-creation of the table carried.
C5_StoredTeardown ==
    \A t \in Threads :
        rq[t].pc \in AfterDown /\ Decision(rq[t].table_sql, rq[t].sql_up) = "Recreate"
        => /\ rq[t].ddl # <<>>
           /\ installed[rq[t].table_name].found
           /\ rq[t].ddl[1] = installed[rq[t].table_name].down

\* A re-creating request whose own sql_down differs from the stored one has
\* executed the teardown, the request before it having been rolled back.
C5_Witness ==
    \E t \in Threads :
        /\ rq[t].pc = "up" /\ rq[t].table_sql.found
        /\ Len(rq[t].ddl) = 1 /\ rq[t].ddl[1] # rq[t].sql_down
        /\ prev.response = "error"

\* C6 as claimed: two requests in progress for the same table never both
\* find no registry record and both execute their creation statement.
C6_Serialized ==
    \A t \in Threads : \A u \in Threads \ {t} :
        /\ rq[t].pc \in AfterDown /\ rq[u].pc \in AfterDown
        /\ rq[t].table_name = rq[u].table_name
        => ~ /\ ~rq[t].table_sql.found /\ rq[t].ddl # <<>>
             /\ ~rq[u].table_sql.found /\ rq[u].ddl # <<>>

\* The handler has executed statements that it has neither committed nor
\* rolled back.
InTransaction(t) ==
    rq[t].pc \in {"down", "up", "store", "truncate", "insert", "commit"}

\* The DDL statements the handler has executed name its own table only.
OwnStatements(t) ==
    \A i \in 1..Len(rq[t].ddl) : rq[t].ddl[i].tbl = rq[t].table_name

\* The part of a database state that belongs to table id.
Own(st, id) == [reg |-> st.reg[id], tab |-> st.tabs[id]]

\* C7 as claimed: while a request for one table is in its transaction, the
\* rollback of a request for another table discards none of its statements
\* and the commit of a request for another table makes none of them durable.
C7_Isolated ==
    [][\A t \in Threads : \A u \in Threads \ {t} :
          /\ InTransaction(u) /\ OwnStatements(u)
          /\ rq[t].pc \in PreCommit /\ OwnStatements(t)
          /\ rq[t].table_name # rq[u].table_name
          /\ rq'[t].ends # rq[t].ends
          => /\ Own(connection'.txn, rq[u].table_name) = Own(connection.txn, rq[u].table_name)
             /\ Own(database', rq[u].table_name) = Own(database, rq[u].table_name)]_vars

\* C8 as claimed: a request that has sent the track-table call and left the
\* handler has also sent the grant-select call and the suggestion query,
\* whether or not the earlier calls failed.
C8_Isolated ==
    \A t \in Threads :
        rq[t].pc = "done" /\ rq[t].sent # <<>>
        => /\ Len(rq[t].sent) >= 3
           /\ SentTypes(t)[2] = "pg_create_select_permission"
           /\ SentTypes(t)[3] = "pg_suggest_relationships"

\* C9 as claimed: a request whose commit succeeded returns {status: success}
\* and its data stays committed, whatever the metadata calls do.
C9_SuccessAfterCommit ==
    \A t \in Threads :
        rq[t].pc = "done" /\ rq[t].ends = <<"commit">>
        => /\ rq[t].response = "success"
           /\ database.reg[rq[t].table_name].found

\* The request in thread t carries the table name, sql_up, columns and
\* payload of the request that returned last, which succeeded.  A sql_down
\* that was not read (NoStmt) stands for any value.
SameAsPrev(t) ==
    /\ prev.valid
    /\ rq[t].table_name = prev.table_name
    /\ rq[t].sql_up = prev.sql_up
    /\ rq[t].columns = prev.columns
    /\ rq[t].payload = prev.payload
    /\ NoStmt \in {rq[t].sql_down, prev.sql_down} \/ rq[t].sql_down = prev.sql_down

\* C10: when a request repeats the successful request before it, its
\* create_table finds the record and returns False (Unchanged), and its
\* commit leaves the committed registry and tables as the first request
\* left them.
C10_Idempotent ==
    [][\A t \in Threads :
          /\ rq[t].pc = "commit" /\ SameAsPrev(t)
          /\ rq'[t].ends = <<"commit">>
          => /\ rq[t].table_sql.found /\ ~rq[t].created /\ rq[t].ddl = <<>>
             /\ rq'[t].response = "success"
             /\ database' = database]_vars

\* A request with a non-empty payload has repeated the successful request
\* before it and returned success.
C10_Witness ==
    \E t \in Threads :
        /\ rq[t].pc = "done" /\ rq[t].response = "success"
        /\ SameAsPrev(t) /\ Len(rq[t].payload) = 2

\* The handler has chosen its branch in create_table and has not returned.
Decided ==
    {"down", "up", "store", "truncate", "insert", "commit", "track", "grant",
     "suggest", "bulk", "except_create", "except_insert", "done"}

\* The rows a table with columns tcols holds after the batch alone has been
\* inserted into it: one row per payload row, in the order of the payload,
\* each with the values of the declared columns.
BatchRows(tcols, columns, payload) ==
    [i \in 1..Len(payload) |-> StoredRow(tcols, columns, Values(columns, payload)[i])]

\* C11: a request that found a registry record whose up statement equals
\* its sql_up executes no DDL statement, leaves the record as it found it
\* (in its transaction and in the committed state), sends no metadata
\* operation, and when it returns success the rows of its table are those
\* of its batch.
C11_UnchangedFrame ==
    \A t \in Threads :
        /\ rq[t].pc \in Decided
        /\ rq[t].table_sql.found /\ rq[t].table_sql.up = rq[t].sql_up
        => /\ rq[t].ddl = <<>> /\ ~rq[t].created
           /\ rq[t].sent = <<>>
           /\ connection.txn.reg[rq[t].table_name] = rq[t].table_sql
           /\ database.reg[rq[t].table_name] = rq[t].table_sql
           /\ rq[t].pc = "done" /\ rq[t].response = "success"
              => database.tabs[rq[t].table_name].rows =
                   BatchRows(database.tabs[rq[t].table_name].cols, rq[t].columns, rq[t].payload)

\* A request with an unchanged sql_up and a batch of one row has returned
\* success without executing DDL.
C11_Witness ==
    \E t \in Threads :
        /\ rq[t].pc = "done" /\ rq[t].response = "success"
        /\ rq[t].table_sql.found /\ rq[t].table_sql.up = rq[t].sql_up
        /\ rq[t].payload = <<Row2>> /\ rq[t].ddl = <<>>

\* The query lists infer_relationships can return for the answers of the
\* metadata system.
Inferred == {infer_relationships(rels) : rels \in Suggestions}

\* The metadata operation that a request which found no registry record
\* sends as its n-th.
C12_Expected(t, n) ==
    CASE n = 1 -> [type |-> "pg_track_table", name |-> rq[t].table_name, args |-> <<>>]
      [] n = 2 -> [type |-> "pg_create_select_permission", name |-> rq[t].table_name, args |-> <<>>]
      [] n = 3 -> [type |-> "pg_suggest_relationships", name |-> rq[t].table_name, args |-> <<>>]
      [] OTHER -> [type |-> "bulk", name |-> <<>>, args |-> rq[t].queries]

\* C12: a request that found no registry record sends its metadata
\* operations in one order: pg_track_table, then pg_create_select_permission,
\* then pg_suggest_relationships, each naming its lowercased table name, then
\* one bulk call whose arguments are the queries inferred from the answer to
\* the suggestion query; when it returns success it has sent these four and
\* no other.
C12_FixedOrder ==
    /\ [](\A t \in Threads :
            /\ rq[t].pc = "bulk" => rq[t].queries \in Inferred
            /\ rq[t].pc = "done" /\ rq[t].response = "success" /\ rq[t].created
               => /\ SentTypes(t) = <<"pg_track_table", "pg_create_select_permission",
                                      "pg_suggest_relationships", "bulk">>
                  /\ rq[t].table_name = Lower(rq[t].table_name))
    /\ [][\A t \in Threads :
            ~rq[t].table_sql.found /\ rq[t].pc # "done" /\ rq'[t].sent # rq[t].sent
            => \E raised \in BOOLEAN :
                 LET n == Len(rq[t].sent) + 1
                     q == C12_Expected(t, n)
                 IN /\ n <= 4
                    /\ rq'[t].sent = Append(rq[t].sent,
                          [type |-> q.type, name |-> q.name, args |-> q.args, raised |-> raised])]_vars

\* A request for a table without a registry record has sent the four
\* operations, the bulk call with two inferred relationships, and returned
\* success.
C12_Witness ==
    \E t \in Threads :
        /\ rq[t].pc = "done" /\ rq[t].response = "success"
        /\ ~rq[t].table_sql.found /\ rq[t].created
        /\ Len(rq[t].sent) = 4 /\ Len(rq[t].sent[4].args) = 2

\* The identifiers with a record in the registry of state st.
Registered(st) == {i \in Ids : st.reg[i].found}

\* C13: no step removes an identifier from the committed registry, and a
\* request executes a teardown statement only as the first statement of a
\* re-creation: it found a record whose up statement differs from its sql_up
\* and the statement is the down statement of that record.
C13_NeverDeleted ==
    /\ [][Registered(database) \subseteq Registered(database')]_vars
    /\ [](\A t \in Threads : \A i \in 1..Len(rq[t].ddl) :
            rq[t].ddl[i].op = "drop"
            => /\ i = 1
               /\ rq[t].table_sql.found /\ rq[t].table_sql.up # rq[t].sql_up
               /\ rq[t].ddl[i] = rq[t].table_sql.down)

\* A re-creation has executed its teardown and committed, and the registry
\* holds the records of two tables.
C13_Witness ==
    \E t \in Threads :
        /\ rq[t].pc = "done" /\ rq[t].ends = <<"commit">>
        /\ rq[t].ddl # <<>> /\ rq[t].ddl[1].op = "drop"
        /\ Cardinality(Registered(database)) = 2

\* C14: for a name x that does not end in "s", applying plural, then
\* singular, then plural gives the result of the first plural.
C14_PluralRoundTrip ==
    naming.calls = <<"plural", "singular", "plural">> /\ ~EndsWithS(naming.vals[1])
    => naming.vals[4] = naming.vals[2]

\* plural, singular and plural have been applied to a name of full length
\* that does not end in "s" but contains one.
C14_Witness ==
    /\ naming.calls = <<"plural", "singular", "plural">>
    /\ Len(naming.vals[1]) = MaxLen /\ ~EndsWithS(naming.vals[1])
    /\ naming.vals[1][1] = "s"
    /\ naming.vals[3] = naming.vals[1]

\* In state st every table with a registry record exists and has the
\* columns that the up statement of its record creates.
RecordsMatchTables(st) ==
    \A i \in Ids :
        st.reg[i].found
        => /\ st.tabs[i].exists
           /\ st.reg[i].up.op = "create" /\ st.reg[i].up.tbl = i
           /\ st.tabs[i].cols = st.reg[i].up.cols

\* In state st the down statement of every record drops the table that the
\* up statement of the record creates.
TeardownsInverse(st) ==
    \A i \in Ids :
        st.reg[i].found
        => st.reg[i].down.op = "drop" /\ st.reg[i].down.tbl = st.reg[i].up.tbl

\* C15: in the committed state every table with a registry record exists
\* with the structure its stored up statement creates, as long as every
\* committed record pairs its up statement with the down statement that
\* undoes it: it is so at start-up, and no step, of a request that succeeds
\* or of one that fails, takes such a committed state to one where it is
\* not so.
C15_RecordMatchesTable ==
    /\ RecordsMatchTables(database)
    /\ [][/\ RecordsMatchTables(database)
          /\ TeardownsInverse(database) /\ TeardownsInverse(database')
          => RecordsMatchTables(database')]_vars

\* After a request that was rolled back, a re-creation has replaced a table
\* of one column by one of two columns and committed, and every committed
\* record pairs its statements.
C15_Witness ==
    \E t \in Threads :
        /\ rq[t].pc = "done" /\ rq[t].ends = <<"commit">>
        /\ Len(rq[t].ddl) = 2 /\ rq[t].table_sql.up.cols = {"a"}
        /\ database.tabs[rq[t].table_name].cols = {"a", "b"}
        /\ TeardownsInverse(database) /\ RecordsMatchTables(database)
        /\ prev.response = "error"

\* The branch that the claimed decision rule gives for registry record rec
\* and creation statement up, as the step create_table continues with.
C16_Branch(rec, up) ==
    CASE ~rec.found -> "up"
      [] rec.found /\ rec.up = up -> "truncate"
      [] OTHER -> "down"

\* C16: the lookup of a request named "T" or "t" reads the committed record
\* stored under "t", and the branch create_table takes depends only on the
\* committed record under the lowercased name and on sql_up: creation when
\* there is no record, nothing when the record's up statement equals
\* sql_up, re-creation otherwise.
C16_DecisionByRecord ==
    [][\A t \in Threads :
          /\ rq[t].pc = "select" /\ rq[t].table_name \in {NameT, Namet}
             => /\ rq'[t].table_name = Namet
                /\ cursor'.has
                /\ cursor'.rows = IF database.reg[Namet].found
                                  THEN <<database.reg[Namet]>> ELSE <<>>
          /\ rq[t].pc = "fetch"
             => /\ rq'[t].table_sql = database.reg[rq[t].table_name]
                /\ rq'[t].pc = C16_Branch(database.reg[rq[t].table_name], rq'[t].sql_up)]_vars

\* A request has found a record with another up statement than its own and
\* is about to execute the stored teardown.
C16_Witness ==
    \E t \in Threads :
        /\ rq[t].pc = "down" /\ rq[t].ddl = <<>>
        /\ rq[t].table_sql = database.reg[rq[t].table_name]
        /\ rq[t].table_sql.found /\ rq[t].table_sql.up # rq[t].sql_up
        /\ rq[t].sql_up = BadStmt

\* The submitted batch as rows of a table with columns tcols: the i-th row
\* carries the i-th payload row's values of the declared columns and NULL
\* in the others.
C17_Batch(tcols, columns, payload) ==
    [i \in 1..Len(payload) |->
        [c \in tcols |-> IF c \in Range(columns) THEN payload[i][c] ELSE Null]]

\* C17: when a request has returned success, the committed rows of its
\* table are the rows of its batch, restricted to the declared columns and
\* in the order of the payload, and nothing else.
C17_ReplaceRows ==
    \A t \in Threads :
        rq[t].pc = "done" /\ rq[t].response = "success"
        => /\ database.tabs[rq[t].table_name].exists
           /\ database.tabs[rq[t].table_name].rows =
                C17_Batch(database.tabs[rq[t].table_name].cols, rq[t].columns, rq[t].payload)

\* A request with a batch of two rows has returned success for a table in
\* which the successful request before it had left other rows.
C17_Witness ==
    \E t \in Threads :
        /\ rq[t].pc = "done" /\ rq[t].response = "success"
        /\ Len(rq[t].payload) = 2
        /\ prev.valid /\ prev.table_name = rq[t].table_name
        /\ prev.payload # <<>> /\ prev.payload # rq[t].payload

\* The side of a suggestion that holds the foreign key: an object
\* relationship is created from its own columns (the from side), an array
\* relationship from the columns of the remote table (the to side).
Referencing(rel) == IF rel.type = "object" THEN rel.from ELSE rel.to

\* The side of a suggestion the foreign key points to.
Referenced(rel) == IF rel.type = "object" THEN rel.to ELSE rel.from

\* The registration claimed for an object or array suggestion.
C18_Registration(rel) ==
    IF rel.type = "object"
    THEN [type |-> "pg_create_object_relationship",
          table |-> Referencing(rel).table,
          name |-> singular(Referenced(rel).table),
          using |-> [table |-> <<>>, columns |-> Referencing(rel).columns]]
    ELSE [type |-> "pg_create_array_relationship",
          table |-> Referenced(rel).table,
          name |-> plural(Referencing(rel).table),
          using |-> [table |-> Referencing(rel).table, columns |-> Referencing(rel).columns]]

\* The object and array suggestions of a list, in the order of the list.
C18_Kept(rels) == SelectSeq(rels, LAMBDA rel : rel.type \in {"object", "array"})

\* The registrations claimed for a list of suggestions.
C18_Registrations(rels) ==
    [k \in 1..Len(C18_Kept(rels)) |-> C18_Registration(C18_Kept(rels)[k])]

\* C18: after every pass of the loop the queries are one registration for
\* each object or array suggestion passed, in the order of the suggestions,
\* and none for a suggestion of another type; an object suggestion gives
\* the referencing table a relationship named by the singular of the
\* referenced table and keyed on the referencing columns, an array
\* suggestion gives the referenced table a relationship named by the plural
\* of the referencing table and keyed on the referencing table and columns.
\* The list returned is the one the handler sends.
C18_OneRegistrationEach ==
    /\ inference.i >= 1
       => inference.queries =
            C18_Registrations(SubSeq(inference.rels, 1, inference.i - 1))
    /\ inference.returned
       => /\ inference.queries = C18_Registrations(inference.rels)
          /\ inference.queries = infer_relationships(inference.rels)

\* infer_relationships has returned two queries for an answer with an array
\* suggestion between two tables, a suggestion of another type and an
\* object suggestion.
C18_Witness ==
    /\ inference.returned
    /\ Len(inference.rels) = 3 /\ Len(inference.queries) = 2
    /\ inference.rels[1].type = "array" /\ inference.rels[2].type = "other"
    /\ inference.rels[3].type = "object"
    /\ inference.rels[1].from.table # inference.rels[1].to.table

\* C19: a request that is about to return {status: error} has ended its
\* transaction by one rollback and no commit, one that is about to return
\* {status: success} by one commit and no rollback; and when a request
\* starts, or none is in progress, the connection holds no uncommitted
\* statement and no aborted transaction.
C19_EndsOnce ==
    /\ \A t \in Threads :
         /\ rq[t].pc = "done" /\ rq[t].response = "error" => rq[t].ends = <<"rollback">>
         /\ rq[t].pc = "done" /\ rq[t].response = "success" => rq[t].ends = <<"commit">>
         /\ rq[t].pc = "select" => connection = [txn |-> database, failed |-> FALSE]
    /\ (\A t \in Threads : rq[t].pc = "idle")
       => connection = [txn |-> database, failed |-> FALSE]

\* A request starts after a request that returned {status: error}, another
\* one having committed a table before.
C19_Witness ==
    \E t \in Threads :
        /\ rq[t].pc = "select" /\ prev.response = "error"
        /\ Registered(database) # {}

====
